---------------------------- MODULE Spec2Model ----------------------------
(***************************************************************************)
(* Model of src/app.js: the EXIF/GPS extraction pipeline                   *)
(* (validateFileFormat, extractGpsFromFile, locateExifSegment,             *)
(* locateExifSegmentInHeic, parseGpsFromTiff, readIfdEntries,              *)
(* readAsciiValue, readRationalValues, convertToDecimalDegrees) and the    *)
(* two UI handlers (handleAnalyze, handleFileSelectionChange).             *)
(*                                                                         *)
(* A byte buffer is a sequence of 0..255; offsets are 0-based as in the    *)
(* source, so the byte at offset o is dataView[o + 1].  A JavaScript       *)
(* string is the sequence of its character codes.  A DataView read past    *)
(* the end of the buffer throws a RangeError: a read returns the value     *)
(* RangeError (-1) there and every caller passes it on.                    *)
(***************************************************************************)
EXTENDS Integers, Sequences, FiniteSets, TLC

VARIABLES
    \* ---- one file going through handleAnalyze's loop body -------------
    buffer,       \* the bytes file.arrayBuffer() resolves to
    fileType,     \* file.type
    fileName,     \* file.name
    pc,           \* position in the loop body / extractGpsFromFile
    locatorRun,   \* which locator extractGpsFromFile called
    walk,         \* what the locator did (return statement taken, offsets)
    firstIfd,     \* directory read by the first readIfdEntries call
    gpsIfd,       \* directory read by the second readIfdEntries call
    outcome,      \* how extractGpsFromFile ended
    message,      \* what the loop body wrote into messageSpan
    \* ---- convertToDecimalDegrees on its own ----------------------------
    cvValues,     \* its argument values
    cvRef,        \* its argument ref
    cvResult,     \* its return value
    cvDone,
    \* ---- the UI: photoInput, analyzeButton, resultsList, the runs -----
    photoFiles,   \* photoInput.files
    disabled,     \* analyzeButton.disabled
    resultsList,  \* children of resultsList
    statusMessage, \* statusMessage.textContent
    runs          \* the handleAnalyze activations, in the order of their clicks

pipeVars == <<buffer, fileType, fileName, pc, locatorRun, walk, firstIfd,
              gpsIfd, outcome, message>>
cvVars == <<cvValues, cvRef, cvResult, cvDone>>
uiVars == <<photoFiles, disabled, resultsList, statusMessage, runs>>
vars == <<pipeVars, cvVars, uiVars>>

(***************************************************************************)
(* JavaScript strings                                                      *)
(***************************************************************************)
toLowerCase(s) == [i \in DOMAIN s |-> IF s[i] \in 65..90 THEN s[i] + 32 ELSE s[i]]

toUpperCase(s) == [i \in DOMAIN s |-> IF s[i] \in 97..122 THEN s[i] - 32 ELSE s[i]]

\* the white space String.prototype.trim removes, among the codes 0..255
WhiteSpace == {9, 10, 11, 12, 13, 32, 160}

RECURSIVE trimStart(_)
trimStart(s) ==
    IF s # <<>> /\ Head(s) \in WhiteSpace THEN trimStart(Tail(s)) ELSE s

RECURSIVE trimEnd(_)
trimEnd(s) ==
    IF s # <<>> /\ s[Len(s)] \in WhiteSpace
    THEN trimEnd(SubSeq(s, 1, Len(s) - 1))
    ELSE s

trim(s) == trimEnd(trimStart(s))

includes(s, sub) ==
    \E i \in 0..(Len(s) - Len(sub)) : SubSeq(s, i + 1, i + Len(sub)) = sub

endsWith(s, sub) ==
    Len(s) >= Len(sub) /\ SubSeq(s, Len(s) - Len(sub) + 1, Len(s)) = sub

\* "heic", "heif", ".heic", ".heif", ".jpg", ".jpeg", "image/jpeg"
StrHeic == <<104, 101, 105, 99>>
StrHeif == <<104, 101, 105, 102>>
StrDotHeic == <<46>> \o StrHeic
StrDotHeif == <<46>> \o StrHeif
StrDotJpg == <<46, 106, 112, 103>>
StrDotJpeg == <<46, 106, 112, 101, 103>>
StrImageJpeg == <<105, 109, 97, 103, 101, 47, 106, 112, 101, 103>>
\* "Exif", "II", "MM"
StrExif == <<69, 120, 105, 102>>
StrII == <<73, 73>>
StrMM == <<77, 77>>

(***************************************************************************)
(* DataView                                                                *)
(***************************************************************************)
RangeError == -1

Thrown(v) == v = RangeError

byteLength(dataView) == Len(dataView)

getUint8(dataView, offset) ==
    IF offset < 0 \/ offset + 1 > byteLength(dataView)
    THEN RangeError
    ELSE dataView[offset + 1]

getUint16(dataView, offset, littleEndian) ==
    IF offset < 0 \/ offset + 2 > byteLength(dataView)
    THEN RangeError
    ELSE IF littleEndian
         THEN dataView[offset + 1] + 256 * dataView[offset + 2]
         ELSE 256 * dataView[offset + 1] + dataView[offset + 2]

\* (the files of the model hold no 32-bit value of 2^31 or more)
getUint32(dataView, offset, littleEndian) ==
    IF offset < 0 \/ offset + 4 > byteLength(dataView)
    THEN RangeError
    ELSE IF littleEndian
         THEN dataView[offset + 1] + 256 * dataView[offset + 2]
              + 65536 * dataView[offset + 3] + 16777216 * dataView[offset + 4]
         ELSE 16777216 * dataView[offset + 1] + 65536 * dataView[offset + 2]
              + 256 * dataView[offset + 3] + dataView[offset + 4]

\* getAscii returns "" when the range does not fit, and reads nothing then
getAscii(dataView, offset, length) ==
    IF offset + length > byteLength(dataView)
    THEN <<>>
    ELSE [index \in 1..length |-> getUint8(dataView, offset + index - 1)]

(***************************************************************************)
(* Format checks                                                           *)
(***************************************************************************)
isHeicFileType(type, name) ==
    \/ includes(type, StrHeic)
    \/ includes(type, StrHeif)
    \/ endsWith(name, StrDotHeic)
    \/ endsWith(name, StrDotHeif)

\* TRUE when validateFileFormat returns null (no warning)
validateFileFormat(type0, name0) ==
    LET type == toLowerCase(type0)
        name == toLowerCase(name0)
        isJpegType == type = StrImageJpeg
        hasJpegExtension == endsWith(name, StrDotJpg) \/ endsWith(name, StrDotJpeg)
    IN  isJpegType \/ hasJpegExtension \/ isHeicFileType(type, name)

isJpeg(dataView) ==
    IF byteLength(dataView) < 4
    THEN FALSE
    ELSE getUint16(dataView, 0, FALSE) = 65496     \* 0xffd8

(***************************************************************************)
(* locateExifSegment: the JPEG segment walk.  The result names the return  *)
(* statement taken (ret), carries the returned object, and lists the       *)
(* offsets at which a marker was read (visited).                           *)
(***************************************************************************)
NoExif(ret, visited) ==
    [ret |-> ret, tiffOffset |-> 0, littleEndian |-> FALSE, visited |-> visited]

\* the body of `if (marker === 0xe1 && length >= 8)`; "next" = fell through
inspectApp1(dataView, offset) ==
    LET headerStart == offset + 4
        signature == getAscii(dataView, headerStart, 4)
    IN  IF signature # StrExif THEN "next"
        ELSE LET z4 == getUint8(dataView, headerStart + 4) IN
             IF Thrown(z4) THEN "RangeError"
             ELSE IF z4 # 0 THEN "next"
             ELSE LET z5 == getUint8(dataView, headerStart + 5) IN
                  IF Thrown(z5) THEN "RangeError"
                  ELSE IF z5 # 0 THEN "next"
                  ELSE LET byteOrder == getAscii(dataView, headerStart + 6, 2) IN
                       IF byteOrder # StrII /\ byteOrder # StrMM
                       THEN "null213"
                       ELSE "found"

\* offset += 2 + 2 + length
nextSegmentOffset(offset, length) == offset + 2 + 2 + length

RECURSIVE segmentWalk(_, _, _)
segmentWalk(dataView, offset, visited) ==
    IF ~(offset + 4 < byteLength(dataView)) THEN NoExif("null224", visited)
    ELSE
    LET b0 == getUint8(dataView, offset)
        marker == getUint8(dataView, offset + 1)
        length == getUint16(dataView, offset + 2, FALSE)
        seen == Append(visited, offset)
    IN  IF Thrown(b0) THEN NoExif("RangeError", visited)
        ELSE IF b0 # 255 THEN NoExif("null224", visited)
        ELSE IF Thrown(marker) THEN NoExif("RangeError", seen)
        ELSE IF marker = 218 THEN NoExif("null224", seen)
        ELSE IF Thrown(length) THEN NoExif("RangeError", seen)
        ELSE
        LET app1 == IF marker = 225 /\ length >= 8
                    THEN inspectApp1(dataView, offset)
                    ELSE "next"
        IN  CASE app1 = "RangeError" -> NoExif("RangeError", seen)
              [] app1 = "null213" -> NoExif("null213", seen)
              [] app1 = "found" ->
                    [ret |-> "found",
                     tiffOffset |-> offset + 4 + 6,
                     littleEndian |-> getAscii(dataView, offset + 4 + 6, 2) = StrII,
                     visited |-> seen]
              [] OTHER ->
                    segmentWalk(dataView, nextSegmentOffset(offset, length), seen)

locateExifSegment(dataView) == segmentWalk(dataView, 2, <<>>)

(***************************************************************************)
(* locateExifSegmentInHeic: the raw scan for "Exif\0\0"                    *)
(***************************************************************************)
HeicSignature == <<69, 120, 105, 102, 0, 0>>

\* the inner loop: TRUE, FALSE, or RangeError
RECURSIVE signatureMatches(_, _, _)
signatureMatches(dataView, offset, index) ==
    IF ~(index < Len(HeicSignature)) THEN 1
    ELSE LET b == getUint8(dataView, offset + index) IN
         IF Thrown(b) THEN RangeError
         ELSE IF b # HeicSignature[index + 1] THEN 0
         ELSE signatureMatches(dataView, offset, index + 1)

\* the scan without `if (tiffOffset + 8 > dataView.byteLength) continue;`
heicHeaderNotChecked(dataView, tiffOffset) == TRUE

\* `if (tiffOffset + 8 > dataView.byteLength) continue;`
heicHeaderFits(dataView, tiffOffset) == ~(tiffOffset + 8 > byteLength(dataView))

RECURSIVE heicScan(_, _)
heicScan(dataView, offset) ==
    LET max == byteLength(dataView) - Len(HeicSignature) - 2 IN
    IF ~(offset <= max) THEN NoExif("null261", <<>>)
    ELSE
    LET matched == signatureMatches(dataView, offset, 0)
        tiffOffset == offset + Len(HeicSignature)
        byteOrder == getAscii(dataView, tiffOffset, 2)
    IN  IF Thrown(matched) THEN NoExif("RangeError", <<>>)
        ELSE IF matched = 0 THEN heicScan(dataView, offset + 1)
        ELSE IF ~heicHeaderFits(dataView, tiffOffset) THEN heicScan(dataView, offset + 1)
        ELSE IF byteOrder # StrII /\ byteOrder # StrMM THEN heicScan(dataView, offset + 1)
        ELSE [ret |-> "found", tiffOffset |-> tiffOffset,
              littleEndian |-> byteOrder = StrII, visited |-> <<>>]

locateExifSegmentInHeic(dataView) == heicScan(dataView, 0)

(***************************************************************************)
(* readIfdEntries.  entries is the Map: a function from the tags set so    *)
(* far to {type, count, dataOffset, valueOrOffset, valueSize}.             *)
(***************************************************************************)
\* getTypeSize without `case 10`
getTypeSizeNoSignedRational(type) ==
    CASE type \in {1, 2, 7} -> 1
      [] type = 3 -> 2
      [] type \in {4, 9} -> 4
      [] type = 5 -> 8
      [] OTHER -> 0

getTypeSize(type) ==
    CASE type \in {1, 2, 7} -> 1
      [] type = 3 -> 2
      [] type \in {4, 9} -> 4
      [] type \in {5, 10} -> 8
      [] OTHER -> 0

EmptyMap == [t \in {} |-> 0]

MapSet(entries, tag, entry) ==
    [t \in DOMAIN entries \cup {tag} |-> IF t = tag THEN entry ELSE entries[t]]

RECURSIVE ifdLoop(_, _, _, _, _, _, _)
ifdLoop(dataView, index, entryCount, cursor, littleEndian, baseOffset, entries) ==
    IF ~(index < entryCount) THEN [thrown |-> FALSE, entries |-> entries]
    ELSE IF cursor + 12 > byteLength(dataView)
    THEN [thrown |-> FALSE, entries |-> entries]
    ELSE
    LET tag == getUint16(dataView, cursor, littleEndian)
        type == getUint16(dataView, cursor + 2, littleEndian)
        count == getUint32(dataView, cursor + 4, littleEndian)
        valueOrOffset == getUint32(dataView, cursor + 8, littleEndian)
    IN  IF Thrown(tag) \/ Thrown(type) \/ Thrown(count) \/ Thrown(valueOrOffset)
        THEN [thrown |-> TRUE, entries |-> entries]
        ELSE
        LET unitSize == getTypeSize(type)
            valueSize == unitSize * count
            dataOffset == IF valueSize > 4 THEN baseOffset + valueOrOffset
                          ELSE cursor + 8
        IN  IF unitSize = 0
            THEN ifdLoop(dataView, index + 1, entryCount, cursor + 12,
                         littleEndian, baseOffset, entries)
            ELSE IF valueSize > 4 /\ dataOffset + valueSize > byteLength(dataView)
            THEN ifdLoop(dataView, index + 1, entryCount, cursor + 12,
                         littleEndian, baseOffset, entries)
            ELSE ifdLoop(dataView, index + 1, entryCount, cursor + 12,
                         littleEndian, baseOffset,
                         MapSet(entries, tag,
                                [type |-> type, count |-> count,
                                 dataOffset |-> dataOffset,
                                 valueOrOffset |-> valueOrOffset,
                                 valueSize |-> valueSize]))

readIfdEntries(dataView, offset, littleEndian, baseOffset) ==
    IF offset <= 0 \/ offset + 2 > byteLength(dataView)
    THEN [thrown |-> FALSE, entries |-> EmptyMap]
    ELSE LET entryCount == getUint16(dataView, offset, littleEndian) IN
         IF Thrown(entryCount) THEN [thrown |-> TRUE, entries |-> EmptyMap]
         ELSE ifdLoop(dataView, 0, entryCount, offset + 2, littleEndian,
                      baseOffset, EmptyMap)

(***************************************************************************)
(* readAsciiValue, readRationalValues                                      *)
(***************************************************************************)
\* [thrown, text]
RECURSIVE asciiLoop(_, _, _, _)
asciiLoop(dataView, pointer, end, bytes) ==
    IF ~(pointer < end) THEN [thrown |-> FALSE, text |-> bytes]
    ELSE IF pointer >= byteLength(dataView) THEN [thrown |-> FALSE, text |-> bytes]
    ELSE LET value == getUint8(dataView, pointer) IN
         IF Thrown(value) THEN [thrown |-> TRUE, text |-> bytes]
         ELSE IF value = 0 THEN [thrown |-> FALSE, text |-> bytes]
         ELSE asciiLoop(dataView, pointer + 1, end, Append(bytes, value))

readAsciiValue(dataView, entry) ==
    asciiLoop(dataView, entry.dataOffset, entry.dataOffset + entry.count, <<>>)

\* [thrown, isNull, rationals]: null, or the array of {numerator, denominator}
RECURSIVE rationalLoop(_, _, _, _, _)
rationalLoop(dataView, entry, littleEndian, index, rationals) ==
    IF ~(index < entry.count)
    THEN [thrown |-> FALSE, isNull |-> FALSE, rationals |-> rationals]
    ELSE
    LET numeratorOffset == entry.dataOffset + index * 8
        denominatorOffset == numeratorOffset + 4
    IN  IF denominatorOffset + 4 > byteLength(dataView)
        THEN [thrown |-> FALSE, isNull |-> TRUE, rationals |-> <<>>]
        ELSE
        LET numerator == getUint32(dataView, numeratorOffset, littleEndian)
            denominator == getUint32(dataView, denominatorOffset, littleEndian)
        IN  IF Thrown(numerator) \/ Thrown(denominator)
            THEN [thrown |-> TRUE, isNull |-> FALSE, rationals |-> <<>>]
            ELSE IF denominator = 0
            THEN [thrown |-> FALSE, isNull |-> TRUE, rationals |-> <<>>]
            ELSE rationalLoop(dataView, entry, littleEndian, index + 1,
                     Append(rationals,
                            [numerator |-> numerator, denominator |-> denominator]))

readRationalValues(dataView, entry, littleEndian) ==
    rationalLoop(dataView, entry, littleEndian, 0, <<>>)

(***************************************************************************)
(* convertToDecimalDegrees.  A Number is NaN or a signed sum of quotients  *)
(* n / (d * k), kept exact (no rounding); a quotient with d = 0 is an      *)
(* infinity or NaN, which Number.isFinite rejects.                         *)
(***************************************************************************)
NaN == [nan |-> TRUE, sign |-> 1, terms |-> <<>>]

Quotient(n, d) == [n |-> n, d |-> d, k |-> 1]

DividedBy(q, k) == [q EXCEPT !.k = q.k * k]

\* parseGpsFromTiff without its Number.isFinite check
isFiniteNotChecked(x) == TRUE

isFinite(x) == ~x.nan /\ \A i \in DOMAIN x.terms : x.terms[i].d # 0

\* refLetter === "S" || refLetter === "W"
isSouthOrWest(refLetter) == refLetter = <<83>> \/ refLetter = <<87>>

\* seconds divided by 60 instead of 3600
sumDegreesSecondsBy60(degrees, minutes, seconds) ==
    <<degrees, DividedBy(minutes, 60), DividedBy(seconds, 60)>>

\* let result = degrees + minutes / 60 + seconds / 3600
sumDegrees(degrees, minutes, seconds) ==
    <<degrees, DividedBy(minutes, 60), DividedBy(seconds, 3600)>>

\* values: [isNull, rationals]
convertToDecimalDegrees(values, ref) ==
    IF values.isNull \/ Len(values.rationals) < 3
    THEN NaN
    ELSE
    LET v == values.rationals
        degrees == Quotient(v[1].numerator, v[1].denominator)
        minutes == Quotient(v[2].numerator, v[2].denominator)
        seconds == Quotient(v[3].numerator, v[3].denominator)
        refLetter == toUpperCase(trim(ref))
    IN  [nan |-> FALSE,
         sign |-> IF isSouthOrWest(refLetter) THEN -1 ELSE 1,
         terms |-> sumDegrees(degrees, minutes, seconds)]

(***************************************************************************)
(* parseGpsFromTiff: [firstIfd, gpsIfd, result], result one of             *)
(* [kind |-> "null"], [kind |-> "RangeError"], [kind |-> "coords", lat, lng]*)
(***************************************************************************)
ResNull == [kind |-> "null", lat |-> NaN, lng |-> NaN]
ResThrown == [kind |-> "RangeError", lat |-> NaN, lng |-> NaN]

\* if (!latRefEntry || !latEntry || !lonRefEntry || !lonEntry) return null
gpsTagsPresent(entries) ==
    1 \in DOMAIN entries /\ 2 \in DOMAIN entries
    /\ 3 \in DOMAIN entries /\ 4 \in DOMAIN entries

decodeGps(dataView, littleEndian, gps) ==
    LET latRef == readAsciiValue(dataView, gps[1])
        lonRef == readAsciiValue(dataView, gps[3])
        latValues == readRationalValues(dataView, gps[2], littleEndian)
        lonValues == readRationalValues(dataView, gps[4], littleEndian)
    IN  IF latRef.thrown \/ lonRef.thrown \/ latValues.thrown \/ lonValues.thrown
        THEN ResThrown
        ELSE IF latValues.isNull \/ lonValues.isNull THEN ResNull
        ELSE
        LET latitude == convertToDecimalDegrees(latValues, latRef.text)
            longitude == convertToDecimalDegrees(lonValues, lonRef.text)
        IN  IF ~isFinite(latitude) \/ ~isFinite(longitude) THEN ResNull
            ELSE [kind |-> "coords", lat |-> latitude, lng |-> longitude]

parseGpsFromTiff(dataView, tiffOffset, littleEndian) ==
    IF tiffOffset + 8 > byteLength(dataView)
    THEN [firstIfd |-> EmptyMap, gpsIfd |-> EmptyMap, result |-> ResNull]
    ELSE
    LET firstIfdOffset == getUint32(dataView, tiffOffset + 4, littleEndian)
        ifdStart == tiffOffset + firstIfdOffset
        first == readIfdEntries(dataView, ifdStart, littleEndian, tiffOffset)
    IN  IF Thrown(firstIfdOffset) \/ first.thrown
        THEN [firstIfd |-> first.entries, gpsIfd |-> EmptyMap, result |-> ResThrown]
        ELSE IF 34853 \notin DOMAIN first.entries          \* 0x8825
        THEN [firstIfd |-> first.entries, gpsIfd |-> EmptyMap, result |-> ResNull]
        ELSE
        LET gpsOffset == first.entries[34853].valueOrOffset
            gpsIfdStart == tiffOffset + gpsOffset
            gps == readIfdEntries(dataView, gpsIfdStart, littleEndian, tiffOffset)
        IN  [firstIfd |-> first.entries,
             gpsIfd |-> gps.entries,
             result |-> IF gps.thrown THEN ResThrown
                        ELSE IF ~gpsTagsPresent(gps.entries) THEN ResNull
                        ELSE decodeGps(dataView, littleEndian, gps.entries)]

(***************************************************************************)
(* The files of the model: byte buffers built the way JPEG, HEIC and TIFF  *)
(* lay them out, with one field at a time made wrong, and cut short at     *)
(* every length.                                                           *)
(***************************************************************************)
U16(v, le) ==
    IF le THEN <<v % 256, v \div 256>> ELSE <<v \div 256, v % 256>>

U32(v, le) ==
    IF le
    THEN <<v % 256, (v \div 256) % 256, (v \div 65536) % 256, v \div 16777216>>
    ELSE <<v \div 16777216, (v \div 65536) % 256, (v \div 256) % 256, v % 256>>

RECURSIVE Flatten(_)
Flatten(seqs) == IF seqs = <<>> THEN <<>> ELSE Head(seqs) \o Flatten(Tail(seqs))

Prefixes(s) == {SubSeq(s, 1, n) : n \in 0..Len(s)}

\* an IFD record: its value slot holds a number (raw = <<>>) or 4 raw bytes
R(tag, type, count, value) ==
    [tag |-> tag, type |-> type, count |-> count, value |-> value, raw |-> <<>>]

RRaw(tag, type, count, raw) ==
    [tag |-> tag, type |-> type, count |-> count, value |-> 0, raw |-> raw]

IfdRecord(r, le) ==
    U16(r.tag, le) \o U16(r.type, le) \o U32(r.count, le)
    \o (IF r.raw = <<>> THEN U32(r.value, le) ELSE r.raw)

IfdBytes(declared, recs, le) ==
    U16(declared, le) \o Flatten([i \in DOMAIN recs |-> IfdRecord(recs[i], le)])
    \o U32(0, le)

\* an offset past the end of every file of the model
FarOffset == 4000

Ifd0Kinds == {"gps", "nogps", "junkgps", "gpsdata", "gpsfar"}

Ifd0Recs(kind, gpsOff) ==
    CASE kind = "gps" -> <<R(34853, 4, 1, gpsOff)>>
      [] kind = "nogps" -> <<RRaw(271, 2, 2, <<65, 0, 0, 0>>)>>
      [] kind = "junkgps" -> <<R(1, 0, 1, 0), R(34853, 4, 1, gpsOff)>>
      [] kind = "gpsdata" -> <<R(34853, 4, 1, gpsOff + 60)>>  \* into the data
      [] kind = "gpsfar" -> <<R(34853, 4, 1, FarOffset)>>

GpsKinds ==
    {"ok", "sw", "lower", "miss1", "miss2", "miss3", "miss4", "bad2", "bad3",
     "junkfirst", "dupLast", "dupBadLast", "dupFarLast", "count0", "count1",
     "count2", "count4lat", "count4lon", "far", "typeByte", "srational", "over",
     "junkDup"}

GpsRecs(kind, latOff, lonOff) ==
    LET N == RRaw(1, 2, 2, <<78, 0, 0, 0>>)
        E == RRaw(3, 2, 2, <<69, 0, 0, 0>>)
        LAT == R(2, 5, 3, latOff)
        LON == R(4, 5, 3, lonOff)
    IN  CASE kind = "sw" -> <<RRaw(1, 2, 2, <<83, 0, 0, 0>>), LAT,
                              RRaw(3, 2, 2, <<87, 0, 0, 0>>), LON>>
          [] kind = "lower" -> <<RRaw(1, 2, 3, <<32, 115, 0, 0>>), LAT,
                                 RRaw(3, 2, 3, <<119, 32, 0, 0>>), LON>>
          [] kind = "miss1" -> <<LAT, E, LON>>
          [] kind = "miss2" -> <<N, E, LON>>
          [] kind = "miss3" -> <<N, LAT, LON>>
          [] kind = "miss4" -> <<N, LAT, E>>
          [] kind = "bad2" -> <<N, R(2, 0, 3, latOff), E, LON>>
          [] kind = "bad3" -> <<N, LAT, RRaw(3, 13, 2, <<69, 0, 0, 0>>), LON>>
          [] kind = "junkfirst" -> <<R(9, 0, 1, 0), N, LAT, E, LON>>
          [] kind = "dupLast" -> <<N, R(2, 5, 3, lonOff), E, LON, LAT>>
          [] kind = "junkDup" -> <<R(9, 0, 1, 0), N, R(2, 5, 3, FarOffset),
                                   R(2, 5, 3, lonOff), E, LON, LAT>>
          [] kind = "dupBadLast" -> <<N, LAT, E, LON, R(2, 0, 3, lonOff)>>
          [] kind = "dupFarLast" -> <<N, LAT, E, LON, R(2, 5, 3, FarOffset)>>
          [] kind = "count0" -> <<N, R(2, 5, 0, latOff), E, LON>>
          [] kind = "count1" -> <<N, R(2, 5, 1, latOff), E, LON>>
          [] kind = "count2" -> <<N, LAT, E, R(4, 5, 2, lonOff)>>
          [] kind = "count4lat" -> <<N, R(2, 5, 4, latOff), E, LON>>
          [] kind = "count4lon" -> <<N, LAT, E, R(4, 5, 4, lonOff)>>
          [] kind = "far" -> <<N, R(2, 5, 3, FarOffset), E, LON>>
          [] kind = "typeByte" -> <<N, R(2, 1, 3, latOff), E, LON>>
          [] kind = "srational" -> <<N, R(2, 10, 3, latOff), E, R(4, 10, 3, lonOff)>>
          [] OTHER -> <<N, LAT, E, LON>>

\* six rationals, 35 40' 45" and 139 41' 30", the one at slot zeroDen (1..6)
\* with denominator 0
GpsData(zeroDen, le) ==
    LET nums == <<35, 40, 45, 139, 41, 30>> IN
    Flatten([i \in 1..6 |->
                U32(nums[i], le) \o U32(IF i = zeroDen THEN 0 ELSE 1, le)])

\* a TIFF stream; order is the marker written, le the order of the data
Tiff(order, le, ifd0Kind, gpsKind, zeroDen) ==
    LET n0 == Len(Ifd0Recs(ifd0Kind, 0))
        ng == Len(GpsRecs(gpsKind, 0, 0))
        gpsOff == 8 + 2 + 12 * n0 + 4
        latOff == gpsOff + 2 + 12 * ng + 4
        lonOff == latOff + 24
    IN  order \o U16(42, le) \o U32(8, le)
        \o IfdBytes(n0, Ifd0Recs(ifd0Kind, gpsOff), le)
        \o IfdBytes(IF gpsKind = "over" THEN 9 ELSE ng,
                    GpsRecs(gpsKind, latOff, lonOff), le)
        \o GpsData(zeroDen, le)

Order(le) == IF le THEN StrII ELSE StrMM

TiffStreams ==
    {Tiff(Order(le), le, "gps", g, 0) : le \in BOOLEAN, g \in GpsKinds}
    \cup {Tiff(Order(le), le, i, "ok", 0) : le \in BOOLEAN, i \in Ifd0Kinds}
    \cup {Tiff(Order(le), le, "gps", "ok", z) : le \in BOOLEAN, z \in 1..6}
    \cup {Tiff(Order(~le), le, "gps", "ok", 0) : le \in BOOLEAN}

\* the streams that are also cut short at every length
CutStreams ==
    {Tiff(StrII, TRUE, "gps", "ok", 0), Tiff(StrMM, FALSE, "gps", "over", 0),
     Tiff(StrII, TRUE, "gps", "typeByte", 0), Tiff(StrMM, FALSE, "gps", "count4lat", 0)}

\* FF D8, then APP1 = FF E1, length, "Exif\0\0", the stream
App1(tiff) == <<255, 225>> \o U16(2 + 6 + Len(tiff), FALSE) \o HeicSignature \o tiff

JpegFile(tiff) == <<255, 216>> \o App1(tiff)

\* a size, "ftypheic", then the Exif item
HeicFile(tiff) ==
    <<0, 0, 0, 12, 102, 116, 121, 112, 104, 101, 105, 99>> \o HeicSignature \o tiff

(***************************************************************************)
(* Container-level files: JPEG segment sequences before an APP1/Exif       *)
(* segment holding a minimal stream, and HEIC byte soups.                  *)
(***************************************************************************)
MaxPre == 2       \* segments before the APP1/Exif segment
MaxChunks == 4    \* pieces of a HEIC byte soup

RECURSIVE SeqsUpTo(_, _)
SeqsUpTo(S, n) ==
    IF n = 0 THEN {<<>>}
    ELSE LET shorter == SeqsUpTo(S, n - 1) IN
         shorter \cup {Append(q, x) : q \in shorter, x \in S}

PreSegments ==
    {<<255, 224, 0, 2>>,                           \* APP0, length 2
     <<255, 224, 0, 4, 74, 70>>,                   \* APP0, length 4
     <<255, 254, 0, 3, 1>>,                        \* COM, length 3
     <<255, 225, 0, 8, 104, 116, 116, 112, 0, 0>>, \* APP1 that is not Exif
     <<255, 225, 0, 4, 69, 120>>,                  \* APP1 shorter than 8
     <<255, 224, 0, 2, 0, 0>>,                     \* APP0, 2 stray bytes after
     <<255, 218, 0, 2>>,                           \* SOS
     <<0, 0>>}                                     \* not a marker

StubOrders == {StrII, StrMM, <<88, 88>>}

\* a stream whose first IFD is empty
StubTiff(order) ==
    LET le == order # StrMM IN order \o U16(42, le) \o U32(8, le) \o U16(0, le)

JpegContainers ==
    {<<255, 216>> \o Flatten(pre) \o App1(StubTiff(order)) :
        pre \in SeqsUpTo(PreSegments, MaxPre), order \in StubOrders}

HeicChunks ==
    {HeicSignature, StrII, StrMM, <<88, 88>>, <<0>>, <<42, 0, 8, 0, 0, 0>>}

HeicSoups == {Flatten(cs) : cs \in SeqsUpTo(HeicChunks, MaxChunks)}

\* file.type, file.name: "image/jpeg" "a.jpg"; "image/heic" "a.heic";
\* "" "A.HEIF"; "image/png" "a.png"
HintJpeg == [type |-> StrImageJpeg, name |-> <<97>> \o StrDotJpg]
HintHeic == [type |-> <<105, 109, 97, 103, 101, 47>> \o StrHeic,
             name |-> <<97>> \o StrDotHeic]
HintUpper == [type |-> <<>>, name |-> <<65, 46, 72, 69, 73, 70>>]
HintPng == [type |-> <<105, 109, 97, 103, 101, 47, 112, 110, 103>>,
            name |-> <<97, 46, 112, 110, 103>>]

File(bytes, hint) == [bytes |-> bytes, type |-> hint.type, name |-> hint.name]

FileFamilies ==
    {"jpegCut", "jpegHinted", "heicSoup", "tiffJpeg", "tiffHeic", "tiffJpegCut",
     "tiffHeicCut"}

FilesOf(family) ==
    CASE family = "jpegCut" ->
            {File(b, HintJpeg) : b \in UNION {Prefixes(c) : c \in JpegContainers}}
      [] family = "jpegHinted" ->
            {File(c, h) : c \in JpegContainers, h \in {HintHeic, HintPng}}
      [] family = "heicSoup" -> {File(b, HintHeic) : b \in HeicSoups}
      [] family = "tiffJpeg" ->
            {File(JpegFile(t), h) : t \in TiffStreams, h \in {HintJpeg, HintHeic}}
      [] family = "tiffHeic" ->
            {File(HeicFile(t), h) : t \in TiffStreams,
                                    h \in {HintHeic, HintUpper, HintJpeg}}
      [] family = "tiffJpegCut" ->
            {File(b, HintJpeg) : b \in UNION {Prefixes(JpegFile(t)) : t \in CutStreams}}
      [] family = "tiffHeicCut" ->
            {File(b, HintHeic) : b \in UNION {Prefixes(HeicFile(t)) : t \in CutStreams}}

(***************************************************************************)
(* One file through the loop body of handleAnalyze                         *)
(***************************************************************************)
Pending == [kind |-> "pending", lat |-> NaN, lng |-> NaN]
ErrorThrown(msg) == [kind |-> msg, lat |-> NaN, lng |-> NaN]

PipeIdle ==
    /\ buffer = <<>> /\ fileType = <<>> /\ fileName = <<>>
    /\ pc = "idle" /\ locatorRun = "none" /\ walk = NoExif("none", <<>>)
    /\ firstIfd = EmptyMap /\ gpsIfd = EmptyMap
    /\ outcome = Pending /\ message = "analyzing"

CvIdle ==
    /\ cvValues = [isNull |-> TRUE, rationals |-> <<>>] /\ cvRef = <<>>
    /\ cvResult = NaN /\ cvDone = FALSE

UiIdle ==
    /\ photoFiles = <<>> /\ disabled = TRUE /\ resultsList = <<>>
    /\ statusMessage = "select" /\ runs = <<>>

Init ==
    /\ \E family \in FileFamilies : \E f \in FilesOf(family) :
          buffer = f.bytes /\ fileType = f.type /\ fileName = f.name
    /\ pc = "start" /\ locatorRun = "none" /\ walk = NoExif("none", <<>>)
    /\ firstIfd = EmptyMap /\ gpsIfd = EmptyMap
    /\ outcome = Pending /\ message = "analyzing"
    /\ CvIdle /\ UiIdle

isHeic == isHeicFileType(toLowerCase(fileType), toLowerCase(fileName))

\* handleAnalyze, lines 59-65
Validate ==
    /\ pc = "start"
    /\ IF validateFileFormat(fileType, fileName)
       THEN pc' = "extract" /\ message' = message
       ELSE pc' = "done" /\ message' = "formatWarning"
    /\ UNCHANGED <<buffer, fileType, fileName, locatorRun, walk, firstIfd,
                   gpsIfd, outcome, cvVars, uiVars>>

\* extractGpsFromFile, lines 142-152
Classify ==
    /\ pc = "extract"
    /\ IF ~isJpeg(buffer) /\ ~isHeic
       THEN pc' = "report" /\ outcome' = ErrorThrown("ErrUnsupported")
       ELSE pc' = "locate" /\ outcome' = outcome
    /\ UNCHANGED <<buffer, fileType, fileName, locatorRun, walk, firstIfd,
                   gpsIfd, message, cvVars, uiVars>>

AfterLocate(errorKind) ==
    /\ CASE walk'.ret = "found" -> pc' = "parse" /\ outcome' = outcome
         [] walk'.ret = "RangeError" -> pc' = "report" /\ outcome' = ResThrown
         [] OTHER -> pc' = "report" /\ outcome' = ErrorThrown(errorKind)
    /\ UNCHANGED <<buffer, fileType, fileName, firstIfd, gpsIfd, message,
                   cvVars, uiVars>>

\* extractGpsFromFile, lines 154-164
LocateHeic ==
    /\ pc = "locate" /\ isHeic
    /\ locatorRun' = "heic"
    /\ walk' = locateExifSegmentInHeic(buffer)
    /\ AfterLocate("ErrNoLocationData")

\* extractGpsFromFile, lines 166-172
LocateJpeg ==
    /\ pc = "locate" /\ ~isHeic
    /\ locatorRun' = "jpeg"
    /\ walk' = locateExifSegment(buffer)
    /\ AfterLocate("ErrNoMetadata")

\* return parseGpsFromTiff(dataView, exifInfo)
Parse ==
    /\ pc = "parse"
    /\ LET r == parseGpsFromTiff(buffer, walk.tiffOffset, walk.littleEndian) IN
        /\ firstIfd' = r.firstIfd
        /\ gpsIfd' = r.gpsIfd
        /\ outcome' = r.result
    /\ pc' = "report"
    /\ UNCHANGED <<buffer, fileType, fileName, locatorRun, walk, message,
                   cvVars, uiVars>>

\* handleAnalyze, lines 69-93
Report ==
    /\ pc = "report"
    /\ message' = CASE outcome.kind = "coords" -> "success"
                    [] outcome.kind = "null" -> "ErrNotFound"
                    [] OTHER -> outcome.kind
    /\ pc' = "done"
    /\ UNCHANGED <<buffer, fileType, fileName, locatorRun, walk, firstIfd,
                   gpsIfd, outcome, cvVars, uiVars>>

Next == Validate \/ Classify \/ LocateHeic \/ LocateJpeg \/ Parse \/ Report

Spec == Init /\ [][Next]_vars

(***************************************************************************)
(* What the claims speak of, read from the bytes                           *)
(***************************************************************************)
ExtractRan == pc \in {"parse", "report", "done"} /\ message # "formatWarning"

StartsWithSoi == Len(buffer) >= 2 /\ buffer[1] = 255 /\ buffer[2] = 216

BytesAt(buf, o, bytes) ==
    o + Len(bytes) <= Len(buf) /\ SubSeq(buf, o + 1, o + Len(bytes)) = bytes

ValidOrderAt(buf, o) == BytesAt(buf, o, StrII) \/ BytesAt(buf, o, StrMM)

\* the length field of the segment whose marker is at o
SegLength(buf, o) == 256 * buf[o + 3] + buf[o + 4]

\* an APP1 segment at a, wholly in the buffer, holding "Exif\0\0" and a valid
\* byte-order marker
ValidExifApp1(buf, a) ==
    /\ a + 4 <= Len(buf) /\ buf[a + 1] = 255 /\ buf[a + 2] = 225
    /\ SegLength(buf, a) >= 8 /\ a + 2 + SegLength(buf, a) <= Len(buf)
    /\ BytesAt(buf, a + 4, HeicSignature)
    /\ ValidOrderAt(buf, a + 10)

\* a well-formed segment at o, wholly in the buffer, that is neither SOS nor
\* an Exif APP1
WellFormedOther(buf, o) ==
    /\ o + 4 <= Len(buf) /\ buf[o + 1] = 255
    /\ buf[o + 2] \in 192..254 /\ buf[o + 2] \notin {216, 217, 218}
    /\ SegLength(buf, o) >= 2 /\ o + 2 + SegLength(buf, o) <= Len(buf)
    /\ ~(buf[o + 2] = 225 /\ BytesAt(buf, o + 4, HeicSignature))

\* where the JPEG format puts the first marker that does not start such a segment
RECURSIVE AfterOtherSegments(_, _)
AfterOtherSegments(buf, o) ==
    IF WellFormedOther(buf, o)
    THEN AfterOtherSegments(buf, o + 2 + SegLength(buf, o))
    ELSE o

\* C1: each marker the walk reads after the first is at o + 2 + L of the
\* segment before it, and when well-formed non-Exif segments precede a valid
\* APP1/Exif segment the locator returns that segment's TIFF stream
\* (tiffOffset = body start + 6).
C1_WalkAdvancesByMarkerPlusLength ==
    (locatorRun = "jpeg") =>
        /\ \A i \in 1..(Len(walk.visited) - 1) :
              walk.visited[i + 1]
                  = walk.visited[i] + 2 + SegLength(buffer, walk.visited[i])
        /\ LET a == AfterOtherSegments(buffer, 2) IN
           (a > 2 /\ ValidExifApp1(buffer, a)) =>
               (walk.ret = "found" /\ walk.tiffOffset = a + 4 + 6)

\* C2: no run of extractGpsFromFile ends in a RangeError of a DataView read.
C2_NoRangeError == outcome.kind # "RangeError"

\* C3: a buffer starting FF D8 goes to the JPEG walker whatever the hint; only
\* a buffer not starting FF D8 with a HEIC hint goes to the HEIC scanner; the
\* rest is UnsupportedFormat with no locator run.
C3_FormatPriority ==
    ExtractRan =>
        /\ StartsWithSoi => locatorRun = "jpeg"
        /\ (~StartsWithSoi /\ isHeic) => locatorRun = "heic"
        /\ (~StartsWithSoi /\ ~isHeic) =>
              (locatorRun = "none" /\ outcome.kind = "ErrUnsupported")

\* offsets o with "Exif\0\0" at o and "II" or "MM" at o + 6
HeicMatches(buf) ==
    {o \in 0..Len(buf) : BytesAt(buf, o, HeicSignature) /\ ValidOrderAt(buf, o + 6)}

SetMin(S) == CHOOSE x \in S : \A y \in S : x <= y

HeicScanReturns(M) ==
    IF M = {}
    THEN walk.ret = "null261"
    ELSE /\ walk.ret = "found"
         /\ walk.tiffOffset = SetMin(M) + 6
         /\ walk.littleEndian = BytesAt(buffer, SetMin(M) + 6, StrII)

\* C4 as stated: the scan returns o + 6 for the smallest o with the signature
\* at o and a valid byte-order marker after it, and null iff there is none.
C4_HeicSmallestMatch ==
    (locatorRun = "heic") => HeicScanReturns(HeicMatches(buffer))

\* C4 amended: the same, among the offsets o whose 8-byte TIFF header fits
\* (o + 14 <= byteLength); a match nearer the end is passed over like an
\* invalid one.
C4_HeicSmallestMatchWithHeader ==
    (locatorRun = "heic") =>
        HeicScanReturns({o \in HeicMatches(buffer) : o + 14 <= Len(buffer)})

\* the scan passed an occurrence of the signature with an invalid marker and
\* returned a later one
C4_Witness ==
    /\ locatorRun = "heic" /\ walk.ret = "found"
    /\ \E o \in 0..(walk.tiffOffset - 7) :
          BytesAt(buffer, o, HeicSignature) /\ ~ValidOrderAt(buffer, o + 6)

\* C5: an APP1/Exif segment with an invalid byte-order marker ends the
\* extraction in an outcome other than the one of a walk that found no Exif
\* segment.
C5_InvalidByteOrderDistinct ==
    (locatorRun = "jpeg" /\ walk.ret = "null213" /\ pc \in {"report", "done"})
        => outcome # ErrorThrown("ErrNoMetadata")

\* the rationals of a value entry lie in the buffer, are at least three and
\* all have a non-zero denominator
GoodRationals(entry) ==
    /\ entry.count >= 3
    /\ \A i \in 0..(entry.count - 1) :
          /\ entry.dataOffset + 8 * i + 8 <= Len(buffer)
          /\ getUint32(buffer, entry.dataOffset + 8 * i + 4, walk.littleEndian) > 0

\* C6: a coordinate is returned only if the primary IFD holds 0x8825, the GPS
\* IFD holds tags 1, 2, 3 and 4, and both value entries hold at least three
\* rationals inside the buffer, all with a non-zero denominator; otherwise
\* nothing of a coordinate is returned.
C6_CoordinateOnlyFromCompleteGps ==
    /\ (outcome.kind = "coords") =>
          /\ 34853 \in DOMAIN firstIfd
          /\ {1, 2, 3, 4} \subseteq DOMAIN gpsIfd
          /\ GoodRationals(gpsIfd[2])
          /\ GoodRationals(gpsIfd[4])
          /\ ~outcome.lat.nan /\ ~outcome.lng.nan
    /\ (outcome.kind # "coords") => (outcome.lat = NaN /\ outcome.lng = NaN)

\* a coordinate was returned from a latitude entry of four rationals
C6_Witness ==
    /\ pc = "done" /\ outcome.kind = "coords" /\ message = "success"
    /\ gpsIfd[2].count = 4

\* ---- C8: the directory, read from the records themselves ----------------
\* the width of a field type in the table of documented type codes
FieldWidth(type) ==
    IF type \in {1, 2, 7} THEN 1
    ELSE IF type = 3 THEN 2
    ELSE IF type \in {4, 9} THEN 4
    ELSE IF type \in {5, 10} THEN 8
    ELSE 0

\* record i (from 0) of the directory at off
RawRecord(off, i) ==
    LET c == off + 2 + 12 * i
        le == walk.littleEndian
    IN  [slot |-> c + 8,
         tag |-> getUint16(buffer, c, le),
         type |-> getUint16(buffer, c + 2, le),
         count |-> getUint32(buffer, c + 4, le),
         valueOrOffset |-> getUint32(buffer, c + 8, le)]

\* how many of the first entryCount records fit entirely in the buffer
FittingRecords(off) ==
    LET entryCount == getUint16(buffer, off, walk.littleEndian)
        room == (Len(buffer) - off - 2) \div 12
    IN  IF entryCount < room THEN entryCount ELSE room

RecordSize(r) == FieldWidth(r.type) * r.count

RecordKept(r) ==
    /\ FieldWidth(r.type) > 0
    /\ RecordSize(r) > 4 => walk.tiffOffset + r.valueOrOffset + RecordSize(r) <= Len(buffer)

EntryOf(r) ==
    [type |-> r.type, count |-> r.count,
     dataOffset |-> IF RecordSize(r) <= 4 THEN r.slot
                    ELSE walk.tiffOffset + r.valueOrOffset,
     valueOrOffset |-> r.valueOrOffset, valueSize |-> RecordSize(r)]

\* the directory C8 describes for the records at off: every kept record of
\* the fitting ones, the last one winning a repeated tag
DirectoryIs(dir, off) ==
    LET n == FittingRecords(off)
        kept == {i \in 0..(n - 1) : RecordKept(RawRecord(off, i))}
    IN  /\ DOMAIN dir = {RawRecord(off, i).tag : i \in kept}
        /\ \A i \in kept :
              (\A j \in kept : j > i => RawRecord(off, j).tag # RawRecord(off, i).tag)
                  => dir[RawRecord(off, i).tag] = EntryOf(RawRecord(off, i))
        /\ \A t \in DOMAIN dir : dir[t].dataOffset + dir[t].valueSize <= Len(buffer)

ParseRan == pc \in {"report", "done"} /\ walk.ret = "found"

FirstIfdStart == walk.tiffOffset + getUint32(buffer, walk.tiffOffset + 4, walk.littleEndian)

GpsIfdStart == walk.tiffOffset + firstIfd[34853].valueOrOffset

\* C8: readIfdEntries skips a record with an unrecognized type or a value
\* that does not fit and goes on; every later valid record is in the
\* directory, the last of a repeated tag wins, and every entry's value lies
\* in the buffer, at its own slot when valueSize <= 4 and at
\* baseOffset + valueOrOffset otherwise.
C8_DirectorySkipsAndContinues ==
    (ParseRan /\ walk.tiffOffset + 8 <= Len(buffer)) =>
        /\ FirstIfdStart + 2 <= Len(buffer) => DirectoryIs(firstIfd, FirstIfdStart)
        /\ (34853 \in DOMAIN firstIfd /\ GpsIfdStart + 2 <= Len(buffer))
              => DirectoryIs(gpsIfd, GpsIfdStart)

\* the GPS directory was read past a skipped record, and a repeated tag is
\* held by its last valid record
C8_Witness ==
    /\ ParseRan /\ walk.tiffOffset + 8 <= Len(buffer)
    /\ 34853 \in DOMAIN firstIfd /\ GpsIfdStart + 2 <= Len(buffer)
    /\ \E i, j, k \in 0..(FittingRecords(GpsIfdStart) - 1) :
          /\ i < j /\ j < k
          /\ ~RecordKept(RawRecord(GpsIfdStart, i))
          /\ RecordKept(RawRecord(GpsIfdStart, j))
          /\ RecordKept(RawRecord(GpsIfdStart, k))
          /\ RawRecord(GpsIfdStart, j).tag = RawRecord(GpsIfdStart, k).tag
          /\ gpsIfd[RawRecord(GpsIfdStart, k).tag] = EntryOf(RawRecord(GpsIfdStart, k))

(***************************************************************************)
(* convertToDecimalDegrees on its own: every array of up to MaxRationals   *)
(* rationals over a few numerators and denominators, and a few refs        *)
(***************************************************************************)
MaxRationals == 3

CvNumerators == {0, 35, 40, 45}
CvDenominators == {1, 2}

CvRationals ==
    {[numerator |-> n, denominator |-> d] : n \in CvNumerators, d \in CvDenominators}

\* "N" "S" "E" "W" "s" "w" " S " "W\t" "\xa0w" "" "SW" "X" "n"
CvRefs ==
    {<<78>>, <<83>>, <<69>>, <<87>>, <<115>>, <<119>>, <<32, 83, 32>>, <<87, 9>>,
     <<160, 119>>, <<>>, <<83, 87>>, <<88>>, <<110>>}

InitConvert ==
    /\ PipeIdle /\ UiIdle
    /\ cvValues \in {[isNull |-> TRUE, rationals |-> <<>>]}
                    \cup {[isNull |-> FALSE, rationals |-> q] :
                             q \in SeqsUpTo(CvRationals, MaxRationals)}
    /\ cvRef \in CvRefs
    /\ cvResult = NaN /\ cvDone = FALSE

Convert ==
    /\ ~cvDone
    /\ cvResult' = convertToDecimalDegrees(cvValues, cvRef)
    /\ cvDone' = TRUE
    /\ UNCHANGED <<cvValues, cvRef, pipeVars, uiVars>>

NextConvert == Convert

SpecConvert == InitConvert /\ [][NextConvert]_vars

\* ---- exact fractions ------------------------------------------------
RECURSIVE Gcd(_, _)
Gcd(a, b) == IF b = 0 THEN a ELSE Gcd(b, a % b)

Abs(x) == IF x < 0 THEN -x ELSE x

\* the fraction num/den (den > 0) in lowest terms
Lowest(num, den) ==
    LET g == Gcd(Abs(num), den) IN <<num \div g, den \div g>>

\* a Number of three terms as a fraction
NumberValue(x) ==
    LET t == x.terms
        den == (t[1].d * t[1].k) * (t[2].d * t[2].k) * (t[3].d * t[3].k)
        num == t[1].n * (t[2].d * t[2].k) * (t[3].d * t[3].k)
               + t[2].n * (t[1].d * t[1].k) * (t[3].d * t[3].k)
               + t[3].n * (t[1].d * t[1].k) * (t[2].d * t[2].k)
    IN  Lowest(x.sign * num, den)

\* sign(r): -1 exactly when r, trimmed and upper-cased, is "S" or "W"
SignOfRef(r) ==
    IF toUpperCase(trim(r)) \in {<<83>>, <<87>>} THEN -1 ELSE 1

\* sign(r) * (d.n/d.d + (m.n/m.d)/60 + (s.n/s.d)/3600) as a fraction
DmsValue(d, m, s, r) ==
    Lowest(SignOfRef(r) * (3600 * d.numerator * m.denominator * s.denominator
                           + 60 * m.numerator * d.denominator * s.denominator
                           + s.numerator * d.denominator * m.denominator),
           3600 * d.denominator * m.denominator * s.denominator)

Rat(n, d) == [numerator |-> n, denominator |-> d]

\* C7: for a triplet with non-zero denominators and any ref,
\* convertToDecimalDegrees returns sign(r) * (d + m/60 + s/3600), sign(r) = -1
\* exactly for "S"/"W" after trim and upper-casing; (35, 40, 45, "N") gives
\* 128445/3600 and with "s" its negation.
C7_DecimalDegrees ==
    (cvDone /\ ~cvValues.isNull /\ Len(cvValues.rationals) = 3) =>
        LET v == cvValues.rationals IN
        /\ ~cvResult.nan
        /\ NumberValue(cvResult) = DmsValue(v[1], v[2], v[3], cvRef)
        /\ v = <<Rat(35, 1), Rat(40, 1), Rat(45, 1)>> =>
              /\ cvRef = <<78>> => NumberValue(cvResult) = Lowest(128445, 3600)
              /\ cvRef = <<115>> => NumberValue(cvResult) = Lowest(-128445, 3600)

\* 35 40' 45" converted with ref "s"
C7_Witness ==
    /\ cvDone /\ cvRef = <<115>>
    /\ cvValues.rationals = <<Rat(35, 1), Rat(40, 1), Rat(45, 1)>>
    /\ cvResult.sign = -1

(***************************************************************************)
(* The UI: handleFileSelectionChange and handleAnalyze.  A file is what    *)
(* the loop body makes of it: "rejected" (validateFileFormat warns),       *)
(* "coords" (extractGpsFromFile returns a coordinate), "null" (it returns  *)
(* null) or "throws" (it throws, or file.arrayBuffer() rejects).  A run    *)
(* of handleAnalyze is suspended only at `await extractGpsFromFile(file)`: *)
(* between two suspensions it runs without any other handler in between.   *)
(***************************************************************************)
MaxRuns == 2      \* clicks on the analyze button

\* the selections a change event can bring
Selections ==
    {<<>>, <<"coords">>, <<"rejected">>, <<"throws", "coords">>,
     <<"rejected", "null", "rejected">>}

\* the loop from file i to its next await, or through lines 96-107
RECURSIVE loopFrom(_, _)
loopFrom(run, i) ==
    IF i > Len(run.files)
    THEN [run EXCEPT !.status = "done", !.i = i]
    ELSE IF run.files[i] = "rejected"
    THEN loopFrom([run EXCEPT
                      !.items = Append(@, [file |-> i, message |-> "formatWarning"])],
                  i + 1)
    ELSE [run EXCEPT !.items = Append(@, [file |-> i, message |-> "analyzing"]),
                     !.i = i, !.status = "awaiting"]

\* lines 69-93 without the try/catch: a throw ends handleAnalyze
settleUncaught(run) ==
    IF run.files[run.i] = "coords"
    THEN loopFrom([run EXCEPT !.items[run.i].message = "success",
                              !.found = @ + 1], run.i + 1)
    ELSE [run EXCEPT !.status = "rejected"]

\* the awaited extractGpsFromFile settles: lines 69-93, then the loop goes on
settle(run) ==
    LET kind == run.files[run.i]
        text == CASE kind = "coords" -> "success"
                  [] kind = "null" -> "ErrNotFound"
                  [] OTHER -> "error.message"
    IN  loopFrom([run EXCEPT !.items[run.i].message = text,
                             !.found = IF kind = "coords" THEN @ + 1 ELSE @],
                 run.i + 1)

\* the children appendChild added while run r went from `before` to `after`
Appended(r, before, after) ==
    [k \in 1..(Len(after.items) - Len(before.items)) |->
        [run |-> r, file |-> after.items[Len(before.items) + k].file]]

FinalStatus(run) == IF run.found = 0 THEN "noneFound" ELSE "completed"

InitUI ==
    /\ PipeIdle /\ CvIdle
    /\ photoFiles = <<>>
    /\ disabled \in BOOLEAN        \* the page's markup decides; not in src/
    /\ resultsList = <<>>
    /\ statusMessage = "select"
    /\ runs = <<>>

handleFileSelectionChange(files) ==
    /\ photoFiles' = files
    /\ IF files # <<>>
       THEN /\ disabled' = FALSE
            /\ statusMessage' = "selected"
            /\ resultsList' = resultsList
       ELSE /\ disabled' = TRUE
            /\ statusMessage' = "select"
            /\ resultsList' = <<>>
    /\ UNCHANGED <<runs, pipeVars, cvVars>>

\* a click with nothing selected: lines 41-44
handleAnalyzeEmpty ==
    /\ ~disabled /\ photoFiles = <<>>
    /\ statusMessage' = "select"
    /\ UNCHANGED <<photoFiles, disabled, resultsList, runs, pipeVars, cvVars>>

\* a click: lines 39-67, up to the first await (or to the end)
handleAnalyze ==
    /\ ~disabled /\ photoFiles # <<>> /\ Len(runs) < MaxRuns
    /\ LET r == Len(runs) + 1
           fresh == [files |-> photoFiles, i |-> 0, items |-> <<>>,
                     found |-> 0, status |-> "started"]
           run == loopFrom(fresh, 1)
       IN  /\ runs' = Append(runs, run)
           /\ resultsList' = Appended(r, fresh, run)
           /\ disabled' = (run.status # "done")
           /\ statusMessage' = IF run.status = "done" THEN FinalStatus(run)
                               ELSE "analyzing"
    /\ UNCHANGED <<photoFiles, pipeVars, cvVars>>

\* run r resumes after its await
Resume(r) ==
    /\ r <= Len(runs) /\ runs[r].status = "awaiting"
    /\ LET run == settle(runs[r]) IN
        /\ runs' = [runs EXCEPT ![r] = run]
        /\ resultsList' = resultsList \o Appended(r, runs[r], run)
        /\ disabled' = IF run.status = "done" THEN FALSE ELSE disabled
        /\ statusMessage' = IF run.status = "done" THEN FinalStatus(run)
                            ELSE statusMessage
    /\ UNCHANGED <<photoFiles, pipeVars, cvVars>>

NextUI ==
    \/ \E files \in Selections : handleFileSelectionChange(files)
    \/ handleAnalyzeEmpty
    \/ handleAnalyze
    \/ \E r \in 1..MaxRuns : Resume(r)

\* the promise of file.arrayBuffer() settles and the event loop resumes the run
SpecUI ==
    InitUI /\ [][NextUI]_vars /\ \A r \in 1..MaxRuns : WF_vars(Resume(r))

InProgress(r) == r <= Len(runs) /\ runs[r].status = "awaiting"

Completed(r) == r <= Len(runs) /\ runs[r].status = "done"

\* what a finished run has appended: one item per file, in the order of the
\* files, each with the message of its own file
ItemsComplete(run) ==
    /\ Len(run.items) = Len(run.files)
    /\ \A k \in 1..Len(run.files) :
          /\ run.items[k].file = k
          /\ run.items[k].message =
                CASE run.files[k] = "coords" -> "success"
                  [] run.files[k] = "rejected" -> "formatWarning"
                  [] run.files[k] = "null" -> "ErrNotFound"
                  [] OTHER -> "error.message"

\* the children of resultsList that run r appended
ChildrenOf(r) ==
    LET OfRun(c) == c.run = r IN SelectSeq(resultsList, OfRun)

\* C9: a failing file never aborts the batch: every run goes through all its
\* files, appends exactly one item per file in input order, each ending in a
\* success or an error message for its own file, and completes with the
\* analyze button re-enabled.
C9_BatchNeverAborts ==
    /\ [](\A r \in 1..Len(runs) :
            /\ runs[r].status \in {"awaiting", "done"}
            /\ \A k \in 1..(Len(ChildrenOf(r)) - 1) :
                  ChildrenOf(r)[k].file < ChildrenOf(r)[k + 1].file
            /\ runs[r].status = "done" => ItemsComplete(runs[r])
            /\ runs[r].status = "awaiting" =>
                  /\ Len(runs[r].items) = runs[r].i
                  /\ \A k \in 1..runs[r].i : runs[r].items[k].file = k)
    /\ [][\A r \in 1..MaxRuns :
            (InProgress(r) /\ runs'[r].status # "awaiting")
                => (runs'[r].status = "done" /\ ~disabled')]_vars
    /\ \A r \in 1..MaxRuns : InProgress(r) ~> Completed(r)

\* a run over three files, one of them failing, has completed
C9_Witness ==
    \E r \in 1..Len(runs) :
        /\ runs[r].status = "done" /\ Len(runs[r].files) = 3
        /\ \E k \in 1..3 : runs[r].items[k].message = "ErrNotFound"
        /\ ~disabled

\* C10: while a run is in progress the button stays disabled, and at most one
\* run is in progress.
C10_AtMostOneRun ==
    /\ (\E r \in 1..Len(runs) : InProgress(r)) => disabled
    /\ Cardinality({r \in 1..Len(runs) : InProgress(r)}) <= 1

=============================================================================
